---- MODULE Spec2Model ----
(***************************************************************************)
(* Model of tk-multi-reviewsubmission's render dispatch:                   *)
(*   - Renderer.render_in_nuke and ShooterThread (renderer.py), the        *)
(*     dispatcher: a primary thread waiting in a Qt event loop, a worker   *)
(*     thread that spawns the Nuke process and drains its standard error;  *)
(*   - the entry point of hooks/nuke_batch_render_movie.py, the process.   *)
(*                                                                         *)
(* Text is a sequence of tokens.  The two sentinels, the trace marker, the *)
(* path separator and the newline are tokens of their own, every other     *)
(* token stands for a run of ordinary characters.                          *)
(***************************************************************************)
EXTENDS Integers, Sequences, FiniteSets, TLC

\* ------------------------------------------------------------------ bounds
\* longest captured text (in tokens) the codec specification enumerates
MaxText == 5
\* most warning lines Nuke itself writes to standard error during one render
MaxWarn == 1
\* longest path (in tokens) the job-description specification enumerates
MaxPath == 2

\* ------------------------------------------------------------------ tokens
RSD == "[RETURN_STATUS_DATA]"
PP == "[PROCESSED_PATHS]"
TB == "Traceback"
COLON == ":"
NL == "\n"
SP == " "
BS == "\\"
SL == "/"
Whitespace == {NL, SP}

ErrPrefix == "Error in tk-multi-reviewsubmission: "
NoPathsText == "No output paths were found after the render!"
NoPathsMsg == <<ErrPrefix, NoPathsText>>

\* --------------------------------------------------------- string helpers
\* index of the first occurrence of tok in s, 0 when there is none
RECURSIVE IndexFrom(_, _, _)
IndexFrom(s, tok, i) ==
  IF i > Len(s) THEN 0
  ELSE IF s[i] = tok THEN i ELSE IndexFrom(s, tok, i + 1)

Find(s, tok) == IndexFrom(s, tok, 1)

\* str.split(sep): the pieces of s between the occurrences of sep
RECURSIVE Split(_, _)
Split(s, sep) ==
  LET i == Find(s, sep) IN
  IF i = 0 THEN <<s>>
  ELSE <<SubSeq(s, 1, i - 1)>> \o Split(SubSeq(s, i + 1, Len(s)), sep)

\* sep.join(parts)
RECURSIVE Join(_, _)
Join(parts, sep) ==
  IF parts = <<>> THEN <<>>
  ELSE IF Len(parts) = 1 THEN parts[1]
  ELSE parts[1] \o <<sep>> \o Join(Tail(parts), sep)

\* str.rstrip(): s without its trailing whitespace
RECURSIVE RStrip(_)
RStrip(s) ==
  IF s = <<>> THEN s
  ELSE IF s[Len(s)] \in Whitespace THEN RStrip(SubSeq(s, 1, Len(s) - 1))
  ELSE s

\* ------------------------------------------------- worker: entry point data
data_keys ==
  {"path_to_frames", "path_to_movie", "extra_write_node_mapping", "width",
   "height", "first_frame", "last_frame", "version", "name", "color_space",
   "app_settings", "shotgun_context", "render_info"}

cmd_and_args_NoRenderInfo ==
  {"path_to_frames", "path_to_movie", "extra_write_node_mapping", "width",
   "height", "version", "name", "color_space", "first_frame", "last_frame",
   "app_settings", "shotgun_context"}

\* the named options ShooterThread.run puts on the command line
cmd_and_args ==
  {"path_to_frames", "path_to_movie", "extra_write_node_mapping", "width",
   "height", "version", "name", "color_space", "first_frame", "last_frame",
   "app_settings", "shotgun_context", "render_info"}

\* '{0}'.format(ret_status): the repr of the status dictionary, one line
StatusRepr(status) ==
  IF status = "OK" THEN <<"{'status'", COLON, "'OK'}">>
  ELSE <<"{'status'", COLON, "'ERROR'", "'error_msg'", COLON, TB, "'output_path'}">>

StatusFrame_Twice(status) ==
  <<RSD>> \o StatusRepr(status) \o <<RSD>> \o <<RSD>> \o StatusRepr(status) \o <<RSD>>

\* sys.stderr.write('[RETURN_STATUS_DATA]'), write(repr), write('[RETURN_STATUS_DATA]')
StatusFrame(status) == <<RSD>> \o StatusRepr(status) \o <<RSD>>

PathsFrame(path) == <<PP>> \o path \o <<PP>>

\* what the interpreter prints for the uncaught KeyError of line 267
KeyErrorTraceback == <<TB, NL, "KeyError: 'output_path'", NL>>

\* sys.stderr.write('ERROR - missing input argument ...'); sys.stderr.write(get_usage())
MissingArgText == <<"ERROR - missing input argument", NL, "Usage", NL>>

\* sys.stderr.write(str(err)); sys.stderr.write(get_usage())
GetoptErrorText == <<"option not recognized", NL, "Usage", NL>>

\* print get_usage()
UsageText == <<NL, "Usage", NL, NL>>

NukeWarningLine == <<"Warning", NL>>

\* ------------------------------------------------------ host and marshalling
\* the keys of setting_key_by_os
RecognizedPlatforms == {"win32", "linux2", "darwin"}

\* sys.platform: the three recognized identities and another one
Platforms == RecognizedPlatforms \cup {"sunos5"}

\* self.__app.context
app_context == "context"

\* context.serialize() and Context.deserialize(): a text form and back
context_serialize(ctx) == IF ctx = "context" THEN "serialized context" ELSE "serialized ?"

Context_deserialize(text) == IF text = "serialized context" THEN "context" ELSE "?"

\* pickle.dumps() and pickle.loads()
pickle_dumps(value) == <<"pickle", value>>

pickle_loads(text) == IF text[1] = "pickle" THEN text[2] ELSE <<"UnpicklingError">>

\* the render_info entry ShooterThread.run takes for each named option
RenderInfoKey(opt) ==
  CASE opt = "path_to_frames" -> "src_frames_path"
    [] opt = "path_to_movie" -> "movie_output_path"
    [] opt = "shotgun_context" -> "serialized_context"
    [] OTHER -> opt

\* str.replace(old, new) of one-character separators
Replace(path, old, new) == [i \in 1..Len(path) |-> IF path[i] = old THEN new ELSE path[i]]

\* os.sep of the host
os_sep(identity) == IF identity = "win32" THEN BS ELSE SL

\* what os.path.join takes for a separator at the end of a component
Separators(identity) == IF identity = "win32" THEN {BS, SL} ELSE {SL}

\* os.path.join(a, b)
os_path_join(identity, a, b) ==
  IF a # <<>> /\ a[Len(a)] \in Separators(identity)
    THEN a \o b
    ELSE a \o <<os_sep(identity)>> \o b

\* Renderer.__init__: if sys.platform == "win32": path.replace(os.sep, "/")
InitPath(identity, path) ==
  IF identity = "win32" THEN Replace(path, os_sep(identity), SL) ELSE path

\* the default preprocess hook returns the script path as it is
get_processed_script(nuke_script_path) == nuke_script_path

\* the paths of nuke_render_info as gather_nuke_render_info builds them from its
\* arguments and the fields of the Renderer
gather_nuke_render_info(frames, movie, extra, burnin, slate_font, slate_logo) ==
  [src_frames_path |-> Replace(frames, BS, SL),
   movie_output_path |-> Replace(movie, BS, SL),
   extra_write_node_mapping |-> extra,
   burnin_nk |-> burnin,
   slate_font |-> slate_font,
   slate_logo |-> slate_logo]

\* nuke_render_info before gather_nuke_render_info has run
NoRenderInfo ==
  [src_frames_path |-> <<>>, movie_output_path |-> <<>>,
   extra_write_node_mapping |-> [n \in {} |-> <<>>],
   burnin_nk |-> <<>>, slate_font |-> <<>>, slate_logo |-> <<>>]

\* input_data[d_key] = Context.deserialize(opt_value) or pickle.loads(opt_value)
DecodeArg(d_key, opt_value) ==
  IF d_key = "shotgun_context" THEN Context_deserialize(opt_value)
  ELSE pickle_loads(opt_value)

\* a mapping without a variable
NoEnv == [n \in {} |-> ""]

\* env[name] = value on a mapping
EnvSet(env, name, value) ==
  [n \in DOMAIN env \cup {name} |-> IF n = name THEN value ELSE env[n]]

\* os.environ of the dispatcher: TANK_CONTEXT set by the engine, or not
Environments ==
  {[n \in {"PATH"} |-> "/usr/bin"],
   [n \in {"PATH", "TANK_CONTEXT"} |-> IF n = "PATH" THEN "/usr/bin" ELSE "engine context"]}

KeyErrorMsg(key) == <<"KeyError", key>>

\* --------------------------------------------------------- dispatcher codec
\* the branches of run() taken on the opposite exit codes
ShooterDecode_ExitInverted(rc, lines) ==
  LET output_str == Join(lines, NL)
      sentinel == IF rc = 0 THEN RSD ELSE PP
      parts == Split(output_str, sentinel)
  IN IF Len(parts) < 2
       THEN [error |-> "IndexError", subproc_error_msg |-> <<>>, processed_paths |-> <<>>]
     ELSE IF rc = 0
       THEN [error |-> "none", subproc_error_msg |-> parts[2], processed_paths |-> <<>>]
     ELSE [error |-> "none", subproc_error_msg |-> <<>>, processed_paths |-> parts[2]]

\* split(...)[0] for split(...)[1]: the text before the first sentinel
ShooterDecode_FirstPiece(rc, lines) ==
  LET output_str == Join(lines, NL)
      sentinel == IF rc # 0 THEN RSD ELSE PP
      parts == Split(output_str, sentinel)
  IN IF Len(parts) < 2
       THEN [error |-> "IndexError", subproc_error_msg |-> <<>>, processed_paths |-> <<>>]
     ELSE IF rc # 0
       THEN [error |-> "none", subproc_error_msg |-> parts[1], processed_paths |-> <<>>]
     ELSE [error |-> "none", subproc_error_msg |-> <<>>, processed_paths |-> parts[1]]

\* both fields assigned from the block, whatever the exit code
ShooterDecode_BothFields(rc, lines) ==
  LET output_str == Join(lines, NL)
      sentinel == IF rc # 0 THEN RSD ELSE PP
      parts == Split(output_str, sentinel)
  IN IF Len(parts) < 2
       THEN [error |-> "IndexError", subproc_error_msg |-> <<>>, processed_paths |-> <<>>]
     ELSE [error |-> "none", subproc_error_msg |-> parts[2], processed_paths |-> parts[2]]

\* ShooterThread.run after the drain loop: the block between the first two
\* sentinels, by exit code.  split(...)[1] raises IndexError without a sentinel,
\* which ends run() with both fields still empty.
ShooterDecode(rc, lines) ==
  LET output_str == Join(lines, NL)
      sentinel == IF rc # 0 THEN RSD ELSE PP
      parts == Split(output_str, sentinel)
  IN IF Len(parts) < 2
       THEN [error |-> "IndexError", subproc_error_msg |-> <<>>, processed_paths |-> <<>>]
     ELSE IF rc # 0
       THEN [error |-> "none", subproc_error_msg |-> parts[2], processed_paths |-> <<>>]
     ELSE [error |-> "none", subproc_error_msg |-> <<>>, processed_paths |-> parts[2]]

\* 'Traceback' + thread_error_msg.split('Traceback')[1], the whole message on
\* IndexError
SubprocTraceback(thread_error_msg) ==
  LET parts == Split(thread_error_msg, TB) IN
  IF Len(parts) < 2 THEN thread_error_msg ELSE <<TB>> \o parts[2]

\* render_in_nuke without its 'if not processed_paths' test
RenderOutcome_NoEmptyCheck(thread_error_msg, paths) ==
  IF thread_error_msg # <<>>
    THEN [kind |-> "raised",
          msg |-> <<ErrPrefix>> \o SubprocTraceback(thread_error_msg),
          paths |-> <<>>]
  ELSE [kind |-> "returned", msg |-> <<>>, paths |-> Split(paths, COLON)]

\* Renderer.render_in_nuke after the event loop returned
RenderOutcome(thread_error_msg, paths) ==
  IF thread_error_msg # <<>>
    THEN [kind |-> "raised",
          msg |-> <<ErrPrefix>> \o SubprocTraceback(thread_error_msg),
          paths |-> <<>>]
  ELSE IF paths = <<>>
    THEN [kind |-> "raised", msg |-> NoPathsMsg, paths |-> <<>>]
  ELSE [kind |-> "returned", msg |-> <<>>, paths |-> Split(paths, COLON)]

NoOutcome == [kind |-> "none", msg |-> <<>>, paths |-> <<>>]

\* ------------------------------------------------------------------- state
VARIABLES
  pcMain,             \* primary thread: position in Renderer.render_in_nuke
  outcome,            \* what render_in_nuke returned or raised
  resumes,            \* times event_loop.exec_() has returned
  pcThread,           \* ShooterThread: position in run()
  output_lines,       \* ShooterThread.run: the lines captured so far
  subproc_error_msg,  \* ShooterThread.subproc_error_msg
  processed_paths,    \* ShooterThread.processed_paths
  threadError,        \* the exception that ended run(), "none" otherwise
  quitPosted,         \* finished() emitted: event_loop.quit queued for the primary thread
  finishedEarly,      \* history: the thread had finished when exec_() was entered
  spawned,            \* number of Popen calls made
  exe_ok,             \* nuke_exe_path names a runnable program
  pcWorker,           \* worker process: position in the entry point
  argv,               \* worker: the named options on its command line
  input_data,         \* worker: the keys decoded into input_data
  ret_status,         \* worker: status returned by render_in_nuke
  warnings,           \* worker: warning lines Nuke has written
  returncode,         \* worker: exit code, -1 while there is none
  pipe,               \* standard error: written by the worker, not yet read
  written,            \* standard error: everything the worker has written
  stdout,             \* worker: what it has written to standard output
  optarg,             \* worker: the value of each named option of its command line
  before_help,        \* worker: the named options that come before the first help
                      \* flag of its command line (all of them when there is none)
  worker_env,         \* worker: the environment it was spawned with
  platform,           \* dispatcher: sys.platform
  os_environ,         \* dispatcher: the os.environ mapping
  process_env,        \* dispatcher: the environment of its process (putenv)
  threads_started,    \* number of ShooterThread.start() calls made
  path_to_frames,     \* render_in_nuke argument
  path_to_movie,      \* render_in_nuke argument
  extra_write_node_mapping,  \* render_in_nuke argument: write node name to path
  font,               \* Renderer._font
  logo,               \* Renderer._logo
  burnin_nk,          \* Renderer._burnin_nk
  nuke_render_info,   \* the paths of the job description
  nuke_importable,    \* dispatcher: the nuke module was imported (nuke is not None)
  batch_mode,         \* ShooterThread.batch_mode
  cmd_prefix,         \* the command line before its named options
  heap,               \* the mappings that exist, by identity: heap[1] is the caller's
  fields_of,          \* the mapping each running function has bound to its name fields
  called,             \* app: the entry point the caller invoked
  pcApp,              \* app: where the call is
  upload_to_shotgun,  \* app setting
  store_on_disk,      \* app setting
  movie_exists,       \* os.path.exists of the movie path
  progress,           \* app: the percentages reported through progress_cb
  submitted,          \* app: number of Submitter.submit_version calls made
  deleted,            \* app: os.unlink of the movie was called
  app_result          \* app: how the call ended

vars == <<pcMain, outcome, resumes, pcThread, output_lines, subproc_error_msg,
          processed_paths, threadError, quitPosted, finishedEarly, spawned, exe_ok,
          pcWorker, argv, input_data, ret_status, warnings, returncode, pipe, written,
          stdout, optarg, before_help, worker_env, platform, os_environ, process_env,
          threads_started, path_to_frames, path_to_movie, extra_write_node_mapping, font,
          logo, burnin_nk, nuke_render_info, nuke_importable, batch_mode, cmd_prefix,
          heap, fields_of, called, pcApp, upload_to_shotgun, store_on_disk, movie_exists,
          progress, submitted, deleted, app_result>>

\* the state of the app call, apart from the mappings
appVars == <<fields_of, called, pcApp, upload_to_shotgun, store_on_disk, movie_exists,
             progress, submitted, deleted, app_result>>

\* the functions that bind the name fields
Frames == {"caller", "render_and_submit_version", "render_and_submit_path", "render",
           "submit_version", "render_in_nuke"}

\* the mapping the caller passes: it may hold a sequence key and a width already
CallerFields ==
  [name |-> "shot010", SEQ |-> "0001", width |-> "caller width", path |-> "caller path"]

\* mapping[key] = value
SetItem(mapping, key, value) ==
  [k \in DOMAIN mapping \cup {key} |-> IF k = key THEN value ELSE mapping[k]]

\* fields["first_frame"] = ...; fields["last_frame"] = ...; fields["path"] = ...
PreprocessFields(mapping) ==
  SetItem(SetItem(SetItem(mapping, "first_frame", "first"), "last_frame", "last"),
          "path", "path_to_frames")

\* no app call: render_in_nuke called with the caller's own mapping
DirectCall ==
  /\ heap = <<CallerFields>>
  /\ fields_of = [f \in Frames |-> IF f \in {"caller", "render_in_nuke"} THEN 1 ELSE 0]
  /\ called = "render_in_nuke"
  /\ pcApp = "none"
  /\ upload_to_shotgun = TRUE
  /\ store_on_disk = TRUE
  /\ movie_exists = FALSE
  /\ progress = <<>>
  /\ submitted = 0
  /\ deleted = FALSE
  /\ app_result = "none"

\* the host of the dispatcher, the arguments of the call and the fields of the
\* Renderer, which no step changes
hostVars == <<platform, os_environ, path_to_frames, path_to_movie,
              extra_write_node_mapping, font, logo, burnin_nk, nuke_importable>>

\* run_in_batch_mode = True if nuke is None else False
run_in_batch_mode(importable) == ~importable

nuke_flag_Inverted(batch) == IF batch THEN "-it" ELSE "-t"

\* if self.batch_mode: nuke_flag = '-t' else: nuke_flag = '-it'
nuke_flag(batch) == IF batch THEN "-t" ELSE "-it"

\* nuke_render_info as ShooterThread.run reads it
render_info(key) ==
  CASE key = "serialized_context" -> context_serialize(app_context)
    [] key \in {"src_frames_path", "movie_output_path", "extra_write_node_mapping"} ->
         nuke_render_info[key]
    [] key = "render_info" ->
         [burnin_nk |-> nuke_render_info.burnin_nk, slate_font |-> nuke_render_info.slate_font]
    [] key = "app_settings" -> [slate_logo |-> nuke_render_info.slate_logo]
    [] OTHER -> <<"value of", key>>

\* one value of the command line: pickled, the context token as it is
EncodeArg(opt) ==
  IF opt = "shotgun_context" THEN render_info(RenderInfoKey(opt))
  ELSE pickle_dumps(render_info(RenderInfoKey(opt)))

\* the destination movie path of the dispatched job
movie_output_path == <<"/dest/shot010_comp.mov">>

\* a Renderer constructed on a host whose app lives at disk_location, the logo
\* template resolving to a file or not
RendererInit(disk_location, logo_is_file) ==
  /\ font = InitPath(platform, os_path_join(platform, disk_location, <<"font.ttf">>))
  /\ burnin_nk = InitPath(platform, os_path_join(platform, disk_location, <<"burnin.nk">>))
  /\ logo = IF logo_is_file
              THEN InitPath(platform, os_path_join(platform, disk_location, <<"logo">>))
              ELSE <<>>

\* the arguments and the Renderer of one dispatch on a POSIX-style layout
DefaultJob ==
  /\ path_to_frames = <<SL, "a">>
  /\ path_to_movie = movie_output_path
  /\ extra_write_node_mapping = [n \in {} |-> <<>>]
  /\ font = <<SL, "a", SL, "font.ttf">>
  /\ burnin_nk = <<SL, "a", SL, "burnin.nk">>
  /\ logo = <<>>

\* nuke_render_info of DefaultJob
DefaultRenderInfo ==
  gather_nuke_render_info(<<SL, "a">>, movie_output_path, [n \in {} |-> <<>>],
                          <<SL, "a", SL, "burnin.nk">>, <<SL, "a", SL, "font.ttf">>, <<>>)

mainVars == <<pcMain, outcome, resumes, finishedEarly>>
threadVars == <<pcThread, output_lines, subproc_error_msg, processed_paths, threadError>>
workerVars == <<pcWorker, argv, input_data, ret_status, warnings, returncode, pipe, written>>

\* ---------------------------------------------------------------- Init
Init ==
  /\ pcMain = "gather"
  /\ outcome = NoOutcome
  /\ resumes = 0
  /\ pcThread = "idle"
  /\ output_lines = <<>>
  /\ subproc_error_msg = <<>>
  /\ processed_paths = <<>>
  /\ threadError = "none"
  /\ quitPosted = FALSE
  /\ finishedEarly = FALSE
  /\ spawned = 0
  /\ exe_ok \in BOOLEAN
  /\ pcWorker = "none"
  /\ argv = {}
  /\ input_data = {}
  /\ ret_status = "none"
  /\ warnings = 0
  /\ returncode = -1
  /\ pipe = <<>>
  /\ written = <<>>
  /\ stdout = <<>>
  /\ optarg = NoEnv
  /\ before_help = {}
  /\ worker_env = NoEnv
  /\ platform \in Platforms
  /\ os_environ \in Environments
  /\ process_env = os_environ
  /\ threads_started = 0
  /\ DefaultJob
  /\ nuke_render_info = NoRenderInfo
  /\ nuke_importable \in BOOLEAN
  /\ batch_mode = TRUE
  /\ cmd_prefix = <<>>
  /\ DirectCall

\* ------------------------------------------------------- primary thread
HasSettingKey_Default(identity) == TRUE

\* setting_key_by_os[sys.platform] finds a key
HasSettingKey(identity) == identity \in RecognizedPlatforms

\* render_in_nuke up to the event loop: the three entries put into fields, the
\* preprocess hook and gather_nuke_render_info, where
\* setting_key_by_os[sys.platform] raises KeyError for a platform that is not a key
MainGather ==
  /\ pcMain = "gather"
  /\ heap' = [heap EXCEPT ![fields_of["render_in_nuke"]] = PreprocessFields(@)]
  /\ IF HasSettingKey(platform)
       THEN /\ pcMain' = "start"
            /\ nuke_render_info' =
                 gather_nuke_render_info(path_to_frames, path_to_movie,
                                         extra_write_node_mapping,
                                         get_processed_script(burnin_nk), font, logo)
            /\ UNCHANGED outcome
       ELSE /\ pcMain' = "raised"
            /\ outcome' = [kind |-> "raised", msg |-> KeyErrorMsg(platform), paths |-> <<>>]
            /\ UNCHANGED nuke_render_info
  /\ UNCHANGED <<resumes, finishedEarly, quitPosted, spawned, exe_ok>>
  /\ UNCHANGED threadVars
  /\ UNCHANGED workerVars
  /\ UNCHANGED <<stdout, optarg, before_help, worker_env, process_env, threads_started>>
  /\ UNCHANGED hostVars
  /\ UNCHANGED appVars
  /\ UNCHANGED <<batch_mode, cmd_prefix>>

\* event_loop = QEventLoop(); thread = ShooterThread(...);
\* thread.finished.connect(event_loop.quit); thread.start()
MainStartThread ==
  /\ pcMain = "start"
  /\ pcMain' = "started"
  /\ pcThread' = "spawn"
  /\ batch_mode' = run_in_batch_mode(nuke_importable)
  /\ threads_started' = threads_started + 1
  /\ UNCHANGED <<outcome, resumes, finishedEarly, output_lines, subproc_error_msg,
                 processed_paths, threadError, quitPosted, spawned, exe_ok>>
  /\ UNCHANGED workerVars
  /\ UNCHANGED <<stdout, optarg, before_help, worker_env, process_env>>
  /\ UNCHANGED hostVars
  /\ UNCHANGED appVars
  /\ UNCHANGED heap
  /\ UNCHANGED <<nuke_render_info, cmd_prefix>>

\* event_loop.exec_() is entered
MainEnterExec ==
  /\ pcMain = "started"
  /\ pcMain' = "waiting"
  /\ finishedEarly' = quitPosted
  /\ UNCHANGED <<outcome, resumes, quitPosted, spawned, exe_ok>>
  /\ UNCHANGED threadVars
  /\ UNCHANGED workerVars
  /\ UNCHANGED <<stdout, optarg, before_help, worker_env, process_env, threads_started>>
  /\ UNCHANGED hostVars
  /\ UNCHANGED appVars
  /\ UNCHANGED heap
  /\ UNCHANGED <<nuke_render_info, batch_mode, cmd_prefix>>

\* exec_() returning on any event, finished() emitted or not
AnyEventQuits == TRUE

\* exec_() processes the events posted to the primary thread: it returns when
\* the queued call of event_loop.quit is among them
QuitDelivered == quitPosted

MainQuit ==
  /\ pcMain = "waiting"
  /\ QuitDelivered
  /\ pcMain' = "resumed"
  /\ resumes' = resumes + 1
  /\ quitPosted' = FALSE
  /\ UNCHANGED <<outcome, finishedEarly, spawned, exe_ok>>
  /\ UNCHANGED threadVars
  /\ UNCHANGED workerVars
  /\ UNCHANGED <<stdout, optarg, before_help, worker_env, process_env, threads_started>>
  /\ UNCHANGED hostVars
  /\ UNCHANGED appVars
  /\ UNCHANGED heap
  /\ UNCHANGED <<nuke_render_info, batch_mode, cmd_prefix>>

\* thread.get_errors(), thread.get_processed_paths(), raise or return
MainDecode ==
  /\ pcMain = "resumed"
  /\ outcome' = RenderOutcome(subproc_error_msg, processed_paths)
  /\ pcMain' = outcome'.kind
  /\ UNCHANGED <<resumes, finishedEarly, quitPosted, spawned, exe_ok>>
  /\ UNCHANGED threadVars
  /\ UNCHANGED workerVars
  /\ UNCHANGED <<stdout, optarg, before_help, worker_env, process_env, threads_started>>
  /\ UNCHANGED hostVars
  /\ UNCHANGED appVars
  /\ UNCHANGED heap
  /\ UNCHANGED <<nuke_render_info, batch_mode, cmd_prefix>>

\* -------------------------------------------------------- ShooterThread
\* run(): build cmd_and_args, env = copy.deepcopy(os.environ),
\* env["TANK_CONTEXT"] = ..., subprocess.Popen.  The copy of os.environ is an
\* os._Environ too: assigning to it leaves the os.environ mapping alone and calls
\* putenv, which sets the variable in the environment of the dispatcher's process.
ThreadSpawn ==
  /\ pcThread = "spawn"
  /\ spawned' = spawned + 1
  /\ cmd_prefix' = <<render_info("nuke_exe_path"), nuke_flag(batch_mode),
                     render_info("render_script_path")>>
  /\ process_env' = EnvSet(process_env, "TANK_CONTEXT", render_info("serialized_context"))
  /\ IF exe_ok
       THEN /\ pcThread' = "poll"
            /\ pcWorker' = "parse"
            /\ argv' = cmd_and_args
            /\ optarg' = [opt \in cmd_and_args |-> EncodeArg(opt)]
            /\ before_help' = cmd_and_args
            /\ worker_env' = EnvSet(os_environ, "TANK_CONTEXT", render_info("serialized_context"))
            /\ UNCHANGED threadError
       ELSE /\ pcThread' = "returned"
            /\ threadError' = "OSError"
            /\ UNCHANGED <<pcWorker, argv, optarg, before_help, worker_env>>
  /\ UNCHANGED <<output_lines, subproc_error_msg, processed_paths, quitPosted, exe_ok,
                 input_data, ret_status, warnings, returncode, pipe, written>>
  /\ UNCHANGED mainVars
  /\ UNCHANGED <<stdout, threads_started>>
  /\ UNCHANGED hostVars
  /\ UNCHANGED appVars
  /\ UNCHANGED heap
  /\ UNCHANGED <<nuke_render_info, batch_mode>>

\* while p.poll() is None
ThreadPoll ==
  /\ pcThread = "poll"
  /\ pcThread' = IF pcWorker = "exited" THEN "decode" ELSE "readline"
  /\ UNCHANGED <<output_lines, subproc_error_msg, processed_paths, threadError,
                 quitPosted, spawned, exe_ok>>
  /\ UNCHANGED mainVars
  /\ UNCHANGED workerVars
  /\ UNCHANGED <<stdout, optarg, before_help, worker_env, process_env, threads_started>>
  /\ UNCHANGED hostVars
  /\ UNCHANGED appVars
  /\ UNCHANGED heap
  /\ UNCHANGED <<nuke_render_info, batch_mode, cmd_prefix>>

\* p.stderr.readline(): blocks until a whole line or the end of the stream
ReadlineReady == Find(pipe, NL) # 0 \/ pcWorker = "exited"

ReadlineLen == IF Find(pipe, NL) # 0 THEN Find(pipe, NL) ELSE Len(pipe)

Capture_Prepend(lines, line) == <<RStrip(line)>> \o lines

\* output_lines.append(line.rstrip())
Capture(lines, line) == Append(lines, RStrip(line))

ThreadReadline ==
  /\ pcThread = "readline"
  /\ ReadlineReady
  /\ LET line == SubSeq(pipe, 1, ReadlineLen) IN
       /\ output_lines' = IF line # <<>> THEN Capture(output_lines, line)
                          ELSE output_lines
       /\ pipe' = SubSeq(pipe, ReadlineLen + 1, Len(pipe))
  /\ pcThread' = "poll"
  /\ UNCHANGED <<subproc_error_msg, processed_paths, threadError, quitPosted, spawned,
                 exe_ok, pcWorker, argv, input_data, ret_status, warnings, returncode,
                 written>>
  /\ UNCHANGED mainVars
  /\ UNCHANGED <<stdout, optarg, before_help, worker_env, process_env, threads_started>>
  /\ UNCHANGED hostVars
  /\ UNCHANGED appVars
  /\ UNCHANGED heap
  /\ UNCHANGED <<nuke_render_info, batch_mode, cmd_prefix>>

AfterDecode_RetryOnFailure(rc) == IF rc # 0 THEN "spawn" ELSE "returned"

\* run() ends after the if/else on the exit code, whichever branch it took
AfterDecode(rc) == "returned"

\* if p.returncode != 0: ... else: ...
ThreadDecode ==
  /\ pcThread = "decode"
  /\ LET d == ShooterDecode(returncode, output_lines) IN
       /\ subproc_error_msg' = d.subproc_error_msg
       /\ processed_paths' = d.processed_paths
       /\ threadError' = d.error
  /\ pcThread' = AfterDecode(returncode)
  /\ UNCHANGED <<output_lines, quitPosted, spawned, exe_ok>>
  /\ UNCHANGED mainVars
  /\ UNCHANGED workerVars
  /\ UNCHANGED <<stdout, optarg, before_help, worker_env, process_env, threads_started>>
  /\ UNCHANGED hostVars
  /\ UNCHANGED appVars
  /\ UNCHANGED heap
  /\ UNCHANGED <<nuke_render_info, batch_mode, cmd_prefix>>

\* a direct call instead: lost unless the primary thread is already waiting
DirectQuit(main) == main = "waiting"

\* thread.finished.connect(event_loop.quit): finished() is emitted in the worker
\* thread and the event loop lives in the primary thread, so the call is queued
\* for the primary thread wherever that thread is
QueuedQuit(main) == TRUE

\* run() has returned or raised: QThread emits finished()
ThreadFinished ==
  /\ pcThread = "returned"
  /\ pcThread' = "finished"
  /\ quitPosted' = QueuedQuit(pcMain)
  /\ UNCHANGED <<output_lines, subproc_error_msg, processed_paths, threadError,
                 spawned, exe_ok>>
  /\ UNCHANGED mainVars
  /\ UNCHANGED workerVars
  /\ UNCHANGED <<stdout, optarg, before_help, worker_env, process_env, threads_started>>
  /\ UNCHANGED hostVars
  /\ UNCHANGED appVars
  /\ UNCHANGED heap
  /\ UNCHANGED <<nuke_render_info, batch_mode, cmd_prefix>>

\* ------------------------------------------------------- worker process
Write(text) ==
  /\ pipe' = pipe \o text
  /\ written' = written \o text

dispatcherVars == <<pcMain, outcome, resumes, finishedEarly, pcThread, output_lines,
                    subproc_error_msg, processed_paths, threadError, quitPosted, spawned,
                    exe_ok>>

\* getopt.getopt(sys.argv[1:], "h", ["help"] + ["%s=" % x for x in data_keys])
GetoptAccepts(args) == args \subseteq data_keys \cup {"help"}

\* Context.deserialize(opt_value) or pickle.loads(opt_value) returns a value
Decodes(d_key, opt_value) ==
  IF d_key = "shotgun_context" THEN opt_value = context_serialize(app_context)
  ELSE opt_value[1] = "pickle"

\* a value on the command line that does not decode
Garbage(d_key) == IF d_key = "shotgun_context" THEN "garbage" ELSE <<"garbage">>

\* the traceback of the exception a value that does not decode raises
DecodeErrorTraceback == <<TB, NL, "UnpicklingError", NL>>

HelpRequested_OnlyAlone(args) == args = {"help"}

\* if opt_name in ("-h", "--help")
HelpRequested(args) == "help" \in args

\* getopt and the option loop: an option getopt rejects ends the script with 1,
\* so does a value that does not decode and is reached before a help flag; a
\* help flag ends it with 0; otherwise every data key on the command line is
\* decoded
WorkerParse ==
  /\ pcWorker = "parse"
  /\ IF ~GetoptAccepts(argv)
       THEN /\ Write(GetoptErrorText)
            /\ returncode' = 1
            /\ pcWorker' = "exiting"
            /\ UNCHANGED <<input_data, stdout>>
     ELSE IF \E d_key \in before_help : ~Decodes(d_key, optarg[d_key])
       THEN /\ Write(DecodeErrorTraceback)
            /\ returncode' = 1
            /\ pcWorker' = "exiting"
            /\ UNCHANGED <<input_data, stdout>>
     ELSE IF HelpRequested(argv)
       THEN /\ returncode' = 0
            /\ pcWorker' = "exiting"
            /\ stdout' = stdout \o UsageText
            /\ UNCHANGED <<input_data, pipe, written>>
     ELSE /\ input_data' = argv \cap data_keys
          /\ pcWorker' = "check"
          /\ UNCHANGED <<returncode, pipe, written, stdout>>
  /\ UNCHANGED <<argv, ret_status, warnings>>
  /\ UNCHANGED dispatcherVars
  /\ UNCHANGED <<optarg, before_help, worker_env, process_env, threads_started>>
  /\ UNCHANGED hostVars
  /\ UNCHANGED appVars
  /\ UNCHANGED heap
  /\ UNCHANGED <<nuke_render_info, batch_mode, cmd_prefix>>

MissingKeys_FirstOnly(data) == {"path_to_frames"} \ data

\* the d_key in data_keys with d_key not in input_data
MissingKeys(data) == data_keys \ data

\* for d_key in data_keys: if d_key not in input_data: ... sys.exit(2)
WorkerCheck ==
  /\ pcWorker = "check"
  /\ IF MissingKeys(input_data) = {}
       THEN /\ pcWorker' = "render"
            /\ UNCHANGED <<returncode, pipe, written>>
       ELSE /\ Write(MissingArgText)
            /\ returncode' = 2
            /\ pcWorker' = "exiting"
  /\ UNCHANGED <<argv, input_data, ret_status, warnings>>
  /\ UNCHANGED dispatcherVars
  /\ UNCHANGED <<stdout, optarg, before_help, worker_env, process_env, threads_started>>
  /\ UNCHANGED hostVars
  /\ UNCHANGED appVars
  /\ UNCHANGED heap
  /\ UNCHANGED <<nuke_render_info, batch_mode, cmd_prefix>>

\* Nuke writes a warning to standard error while it renders
NukeWarning ==
  /\ pcWorker = "render"
  /\ warnings < MaxWarn
  /\ warnings' = warnings + 1
  /\ Write(NukeWarningLine)
  /\ UNCHANGED <<pcWorker, argv, input_data, ret_status, returncode>>
  /\ UNCHANGED dispatcherVars
  /\ UNCHANGED <<stdout, optarg, before_help, worker_env, process_env, threads_started>>
  /\ UNCHANGED hostVars
  /\ UNCHANGED appVars
  /\ UNCHANGED heap
  /\ UNCHANGED <<nuke_render_info, batch_mode, cmd_prefix>>

\* print ''; ret_status = render_in_nuke(...): {'status': 'OK'} or
\* {'status': 'ERROR', ...}
WorkerRender ==
  /\ pcWorker = "render"
  /\ stdout' = stdout \o <<NL>>
  /\ \E status \in {"OK", "ERROR"} : ret_status' = status
  /\ pcWorker' = "status"
  /\ UNCHANGED <<argv, input_data, warnings, returncode, pipe, written>>
  /\ UNCHANGED dispatcherVars
  /\ UNCHANGED <<optarg, before_help, worker_env, process_env, threads_started>>
  /\ UNCHANGED hostVars
  /\ UNCHANGED appVars
  /\ UNCHANGED heap
  /\ UNCHANGED <<nuke_render_info, batch_mode, cmd_prefix>>

\* sys.stderr.write('[RETURN_STATUS_DATA]{0}[RETURN_STATUS_DATA]'.format(ret_status))
WorkerStatusFrame ==
  /\ pcWorker = "status"
  /\ Write(StatusFrame(ret_status))
  /\ pcWorker' = "paths"
  /\ UNCHANGED <<argv, input_data, ret_status, warnings, returncode>>
  /\ UNCHANGED dispatcherVars
  /\ UNCHANGED <<stdout, optarg, before_help, worker_env, process_env, threads_started>>
  /\ UNCHANGED hostVars
  /\ UNCHANGED appVars
  /\ UNCHANGED heap
  /\ UNCHANGED <<nuke_render_info, batch_mode, cmd_prefix>>

\* sys.stderr.write('[PROCESSED_PATHS]{0}[PROCESSED_PATHS]'.format(input_data['output_path']))
\* then sys.exit(0) or sys.exit(3); an uncaught KeyError ends the script with 1
WorkerPathsFrame ==
  /\ pcWorker = "paths"
  /\ IF "output_path" \in input_data
       THEN /\ Write(PathsFrame(<<"output_path">>))
            /\ returncode' = IF ret_status = "OK" THEN 0 ELSE 3
       ELSE /\ Write(KeyErrorTraceback)
            /\ returncode' = 1
  /\ pcWorker' = "exiting"
  /\ UNCHANGED <<argv, input_data, ret_status, warnings>>
  /\ UNCHANGED dispatcherVars
  /\ UNCHANGED <<stdout, optarg, before_help, worker_env, process_env, threads_started>>
  /\ UNCHANGED hostVars
  /\ UNCHANGED appVars
  /\ UNCHANGED heap
  /\ UNCHANGED <<nuke_render_info, batch_mode, cmd_prefix>>

\* the process ends: poll() returns the exit code, the pipe reaches end of file
WorkerExit ==
  /\ pcWorker = "exiting"
  /\ pcWorker' = "exited"
  /\ UNCHANGED <<argv, input_data, ret_status, warnings, returncode, pipe, written>>
  /\ UNCHANGED dispatcherVars
  /\ UNCHANGED <<stdout, optarg, before_help, worker_env, process_env, threads_started>>
  /\ UNCHANGED hostVars
  /\ UNCHANGED appVars
  /\ UNCHANGED heap
  /\ UNCHANGED <<nuke_render_info, batch_mode, cmd_prefix>>

\* ------------------------------------------------------- specifications
MainNext == MainGather \/ MainStartThread \/ MainEnterExec \/ MainQuit \/ MainDecode

ThreadNext == ThreadSpawn \/ ThreadPoll \/ ThreadReadline \/ ThreadDecode \/ ThreadFinished

WorkerNext ==
  \/ WorkerParse
  \/ WorkerCheck
  \/ NukeWarning
  \/ WorkerRender
  \/ WorkerStatusFrame
  \/ WorkerPathsFrame
  \/ WorkerExit

Next == MainNext \/ ThreadNext \/ WorkerNext

Spec == Init /\ [][Next]_vars

\* The two threads of the dispatcher are scheduled fairly; nothing is assumed of
\* the worker process.
FairSpec == Init /\ [][Next]_vars /\ WF_vars(MainNext) /\ WF_vars(ThreadNext)

\* --------------------------------------------- job description on any paths
\* gather_nuke_render_info on every host, for any paths handed to render_in_nuke
\* and any location of the app.
PathAlphabet == {BS, SL, "a"}

Paths == UNION {[1..n -> PathAlphabet] : n \in 1..MaxPath}

GatherInit ==
  /\ pcMain = "gather"
  /\ outcome = NoOutcome
  /\ resumes = 0
  /\ pcThread = "idle"
  /\ output_lines = <<>>
  /\ subproc_error_msg = <<>>
  /\ processed_paths = <<>>
  /\ threadError = "none"
  /\ quitPosted = FALSE
  /\ finishedEarly = FALSE
  /\ spawned = 0
  /\ exe_ok = TRUE
  /\ pcWorker = "none"
  /\ argv = {}
  /\ input_data = {}
  /\ ret_status = "none"
  /\ warnings = 0
  /\ returncode = -1
  /\ pipe = <<>>
  /\ written = <<>>
  /\ stdout = <<>>
  /\ optarg = NoEnv
  /\ before_help = {}
  /\ worker_env = NoEnv
  /\ platform \in Platforms
  /\ os_environ = [n \in {"PATH"} |-> "/usr/bin"]
  /\ process_env = os_environ
  /\ threads_started = 0
  /\ path_to_frames \in Paths
  /\ path_to_movie \in {Replace(path_to_frames, "a", "mov")}
  /\ extra_write_node_mapping \in {[n \in {"write1"} |-> p] : p \in Paths}
  /\ \E disk_location \in Paths : RendererInit(disk_location, TRUE)
  /\ nuke_render_info = NoRenderInfo
  /\ nuke_importable = FALSE
  /\ batch_mode = TRUE
  /\ cmd_prefix = <<>>
  /\ DirectCall

SpecGather == GatherInit /\ [][MainGather]_vars

\* ------------------------------------------- worker on any command line
\* The worker started from a command line: any set of named options, a help
\* flag or not, an option getopt rejects or not, a value that does not decode
\* or not.
UndecodableKeys == {"width", "shotgun_context"}

CommandLines == SUBSET (data_keys \cup {"help", "bogus"})

WorkerInit ==
  /\ pcMain = "absent"
  /\ outcome = NoOutcome
  /\ resumes = 0
  /\ finishedEarly = FALSE
  /\ pcThread = "absent"
  /\ output_lines = <<>>
  /\ subproc_error_msg = <<>>
  /\ processed_paths = <<>>
  /\ threadError = "none"
  /\ quitPosted = FALSE
  /\ spawned = 0
  /\ exe_ok = TRUE
  /\ threads_started = 0
  /\ platform = "linux2"
  /\ DefaultJob
  /\ nuke_render_info = DefaultRenderInfo
  /\ os_environ = [n \in {"PATH"} |-> "/usr/bin"]
  /\ process_env = os_environ
  /\ worker_env = os_environ
  /\ pcWorker = "parse"
  /\ argv \in CommandLines
  /\ before_help \in IF "help" \in argv THEN {{}, argv \cap data_keys}
                                       ELSE {argv \cap data_keys}
  /\ \E bad \in SUBSET (argv \cap UndecodableKeys) :
       optarg = [opt \in argv \cap data_keys |->
                   IF opt \in bad THEN Garbage(opt) ELSE EncodeArg(opt)]
  /\ input_data = {}
  /\ ret_status = "none"
  /\ warnings = 0
  /\ returncode = -1
  /\ pipe = <<>>
  /\ written = <<>>
  /\ stdout = <<>>
  /\ nuke_importable = FALSE
  /\ batch_mode = TRUE
  /\ cmd_prefix = <<>>
  /\ DirectCall

SpecWorker == WorkerInit /\ [][WorkerNext]_vars

\* ---------------------------------------------- codec on arbitrary output
\* The render script is a setting (render_script template) and Nuke writes to
\* standard error too: the drain loop may end with any exit code and any text.
\* CodecInit is ShooterThread.run right after the drain loop, the primary
\* thread waiting in the event loop.
ExitCodes == {0, 1, 2, 3}

Alphabet == {RSD, PP, TB, COLON, NL, "a"}

Texts == UNION {[1..n -> Alphabet] : n \in 0..MaxText}

CodecInit ==
  /\ pcMain = "waiting"
  /\ outcome = NoOutcome
  /\ resumes = 0
  /\ pcThread = "decode"
  /\ \E text \in Texts :
       /\ output_lines = Split(text, NL)
       /\ written = text
  /\ subproc_error_msg = <<>>
  /\ processed_paths = <<>>
  /\ threadError = "none"
  /\ quitPosted = FALSE
  /\ finishedEarly = FALSE
  /\ spawned = 1
  /\ exe_ok = TRUE
  /\ pcWorker = "exited"
  /\ argv = cmd_and_args
  /\ input_data = {}
  /\ ret_status = "none"
  /\ warnings = 0
  /\ returncode \in ExitCodes
  /\ pipe = <<>>
  /\ stdout = <<>>
  /\ DefaultJob
  /\ nuke_render_info = DefaultRenderInfo
  /\ optarg = [opt \in cmd_and_args |-> EncodeArg(opt)]
  /\ before_help = cmd_and_args
  /\ platform = "linux2"
  /\ os_environ = [n \in {"PATH"} |-> "/usr/bin"]
  /\ process_env = EnvSet(os_environ, "TANK_CONTEXT", render_info("serialized_context"))
  /\ worker_env = EnvSet(os_environ, "TANK_CONTEXT", render_info("serialized_context"))
  /\ threads_started = 1
  /\ nuke_importable = FALSE
  /\ batch_mode = run_in_batch_mode(nuke_importable)
  /\ cmd_prefix = <<render_info("nuke_exe_path"), nuke_flag(batch_mode),
                    render_info("render_script_path")>>
  /\ DirectCall

CodecNext == ThreadDecode \/ ThreadFinished \/ MainQuit \/ MainDecode

SpecCodec == CodecInit /\ [][CodecNext]_vars

\* ------------------------------------------------- drain loop on any text
\* The drain loop of ShooterThread.run against a worker that has written any
\* text to standard error and is about to exit.
PipeInit ==
  /\ pcMain = "waiting"
  /\ outcome = NoOutcome
  /\ resumes = 0
  /\ pcThread = "poll"
  /\ output_lines = <<>>
  /\ \E text \in Texts :
       /\ pipe = text
       /\ written = text
  /\ subproc_error_msg = <<>>
  /\ processed_paths = <<>>
  /\ threadError = "none"
  /\ quitPosted = FALSE
  /\ finishedEarly = FALSE
  /\ spawned = 1
  /\ exe_ok = TRUE
  /\ pcWorker = "exiting"
  /\ argv = cmd_and_args
  /\ input_data = {}
  /\ ret_status = "none"
  /\ warnings = 0
  /\ returncode = 0
  /\ stdout = <<>>
  /\ DefaultJob
  /\ nuke_render_info = DefaultRenderInfo
  /\ optarg = [opt \in cmd_and_args |-> EncodeArg(opt)]
  /\ before_help = cmd_and_args
  /\ platform = "linux2"
  /\ os_environ = [n \in {"PATH"} |-> "/usr/bin"]
  /\ process_env = EnvSet(os_environ, "TANK_CONTEXT", render_info("serialized_context"))
  /\ worker_env = EnvSet(os_environ, "TANK_CONTEXT", render_info("serialized_context"))
  /\ threads_started = 1
  /\ nuke_importable = FALSE
  /\ batch_mode = run_in_batch_mode(nuke_importable)
  /\ cmd_prefix = <<render_info("nuke_exe_path"), nuke_flag(batch_mode),
                    render_info("render_script_path")>>
  /\ DirectCall

PipeNext == ThreadPoll \/ ThreadReadline \/ WorkerExit

SpecPipe == PipeInit /\ [][PipeNext]_vars

\* ------------------------------------------------------------------ app
\* everything of the dispatch, which the app touches only through render_in_nuke
rendererVars == <<dispatcherVars, workerVars, stdout, optarg, before_help, worker_env,
                  process_env, threads_started, nuke_render_info, batch_mode, cmd_prefix>>

copy_copy_Alias(mappings, ref) == [heap |-> mappings, ref |-> ref]

\* copy.copy(fields): a new mapping with the same entries
copy_copy(mappings, ref) == [heap |-> Append(mappings, mappings[ref]), ref |-> Len(mappings) + 1]

Configured_Always(upload, store) == TRUE

\* not (not upload_to_shotgun and not store_on_disk)
Configured(upload, store) == upload \/ store

PathRendered_Always(path, paths) == TRUE

\* output_path in processed_paths
PathRendered(path, paths) == \E i \in 1..Len(paths) : paths[i] = path

\* the names of the SequenceKey keys of the template
SequenceKeys == {"SEQ"}

\* render_and_submit_version: copy of fields, sequence keys set to the Nuke
\* format, template.apply_fields, call of render_and_submit_path
AppVersionEntry ==
  /\ pcApp = "render_and_submit_version"
  /\ LET c == copy_copy(heap, fields_of["render_and_submit_version"]) IN
       /\ heap' = [c.heap EXCEPT ![c.ref] = SetItem(@, "SEQ", "FORMAT: %d")]
       /\ fields_of' = [fields_of EXCEPT !["render_and_submit_version"] = c.ref,
                                          !["render_and_submit_path"] = c.ref]
  /\ pcApp' = "render_and_submit_path"
  /\ UNCHANGED <<called, upload_to_shotgun, store_on_disk, movie_exists, progress,
                 submitted, deleted, app_result>>
  /\ UNCHANGED rendererVars
  /\ UNCHANGED hostVars

\* render_and_submit_path up to its call of render: the settings test, the copy
\* of fields, the version name, progress_cb(20, ...)
AppPathEntry ==
  /\ pcApp = "render_and_submit_path"
  /\ IF Configured(upload_to_shotgun, store_on_disk)
       THEN LET c == copy_copy(heap, fields_of["render_and_submit_path"]) IN
            /\ heap' = c.heap
            /\ fields_of' = [fields_of EXCEPT !["render_and_submit_path"] = c.ref,
                                               !["render"] = c.ref]
            /\ progress' = Append(progress, 20)
            /\ pcApp' = "render"
            /\ UNCHANGED app_result
       ELSE /\ app_result' = "None"
            /\ pcApp' = "done"
            /\ UNCHANGED <<heap, fields_of, progress>>
  /\ UNCHANGED <<called, upload_to_shotgun, store_on_disk, movie_exists, submitted, deleted>>
  /\ UNCHANGED rendererVars
  /\ UNCHANGED hostVars

\* render up to its call of render_in_nuke: progress_cb(10, ...),
\* resolve_extra_write_nodes, the copy of fields with width, height and
\* description, the output path, Renderer()
AppRender ==
  /\ pcApp = "render"
  /\ progress' = Append(progress, 10)
  /\ LET c == copy_copy(heap, fields_of["render"]) IN
       /\ heap' = [c.heap EXCEPT ![c.ref] =
                     SetItem(SetItem(SetItem(@, "width", "movie_width"),
                                     "height", "movie_height"),
                             "description", "comment")]
       /\ fields_of' = [fields_of EXCEPT !["render"] = c.ref, !["render_in_nuke"] = c.ref]
  /\ pcApp' = "render_in_nuke"
  /\ UNCHANGED <<called, upload_to_shotgun, store_on_disk, movie_exists, submitted,
                 deleted, app_result>>
  /\ UNCHANGED rendererVars
  /\ UNCHANGED hostVars

\* the worker's output as far as the app can tell it apart: the movie path in
\* the paths frame alone, with another path, or not; an error frame; nothing
AppTexts ==
  {<<PP>> \o movie_output_path \o <<PP>>,
   <<PP, "a", COLON>> \o movie_output_path \o <<PP>>,
   <<PP, "a", PP>>,
   <<RSD, TB, RSD>>,
   <<>>}

\* render_in_nuke from its first line to the end of the drain loop of
\* ShooterThread.run, the render script (a setting) having written any of
\* AppTexts and ended with any exit code
AppDispatch ==
  /\ pcApp = "render_in_nuke"
  /\ pcApp' = "rendering"
  /\ heap' = [heap EXCEPT ![fields_of["render_in_nuke"]] = PreprocessFields(@)]
  /\ nuke_render_info' =
       gather_nuke_render_info(path_to_frames, path_to_movie, extra_write_node_mapping,
                               get_processed_script(burnin_nk), font, logo)
  /\ batch_mode' = run_in_batch_mode(nuke_importable)
  /\ cmd_prefix' = <<render_info("nuke_exe_path"), nuke_flag(batch_mode'),
                     render_info("render_script_path")>>
  /\ threads_started' = threads_started + 1
  /\ spawned' = spawned + 1
  /\ process_env' = EnvSet(process_env, "TANK_CONTEXT", render_info("serialized_context"))
  /\ worker_env' = EnvSet(os_environ, "TANK_CONTEXT", render_info("serialized_context"))
  /\ argv' = cmd_and_args
  /\ optarg' = [opt \in cmd_and_args |-> EncodeArg(opt)']
  /\ before_help' = cmd_and_args
  /\ \E text \in AppTexts :
       /\ output_lines' = Split(text, NL)
       /\ written' = text
  /\ returncode' \in ExitCodes
  /\ pcWorker' = "exited"
  /\ pcThread' = "decode"
  /\ pcMain' = "waiting"
  /\ UNCHANGED <<outcome, resumes, finishedEarly, subproc_error_msg, processed_paths,
                 threadError, quitPosted, exe_ok, input_data, ret_status, warnings, pipe,
                 stdout>>
  /\ UNCHANGED <<fields_of, called, upload_to_shotgun, store_on_disk, movie_exists,
                 progress, submitted, deleted, app_result>>
  /\ UNCHANGED hostVars

\* render_in_nuke has raised or returned: the exception goes up to the caller;
\* render returns the paths; render_and_submit_path copies fields again, sets
\* width and height, resolves output_path and raises unless it was rendered
AppRenderReturn ==
  /\ pcApp = "rendering"
  /\ pcMain \in {"returned", "raised"}
  /\ IF outcome.kind = "raised"
       THEN /\ app_result' = "raised"
            /\ pcApp' = "done"
            /\ UNCHANGED <<heap, fields_of>>
     ELSE IF called = "render"
       THEN /\ app_result' = "paths"
            /\ pcApp' = "done"
            /\ UNCHANGED <<heap, fields_of>>
     ELSE LET c == copy_copy(heap, fields_of["render_and_submit_path"]) IN
          /\ heap' = [c.heap EXCEPT ![c.ref] =
                        SetItem(SetItem(@, "width", "movie_width"), "height", "movie_height")]
          /\ fields_of' = [fields_of EXCEPT !["render_and_submit_path"] = c.ref]
          /\ IF PathRendered(movie_output_path, outcome.paths)
               THEN pcApp' = "submit" /\ UNCHANGED app_result
               ELSE pcApp' = "done" /\ app_result' = "raised"
  /\ UNCHANGED <<called, upload_to_shotgun, store_on_disk, movie_exists, progress,
                 submitted, deleted>>
  /\ UNCHANGED rendererVars
  /\ UNCHANGED hostVars

\* submit_version up to its call of the submitter: the settings test, the copy
\* of fields, the version name
AppSubmitEntry ==
  /\ pcApp = "submit_version"
  /\ IF Configured(upload_to_shotgun, store_on_disk)
       THEN LET c == copy_copy(heap, fields_of["submit_version"]) IN
            /\ heap' = c.heap
            /\ fields_of' = [fields_of EXCEPT !["submit_version"] = c.ref]
            /\ pcApp' = "submit"
            /\ UNCHANGED app_result
       ELSE /\ app_result' = "None"
            /\ pcApp' = "done"
            /\ UNCHANGED <<heap, fields_of>>
  /\ UNCHANGED <<called, upload_to_shotgun, store_on_disk, movie_exists, progress,
                 submitted, deleted>>
  /\ UNCHANGED rendererVars
  /\ UNCHANGED hostVars

\* progress_cb(50, ...), Submitter().submit_version(...), which returns the
\* version or raises; then the movie is removed if it is not to be kept and
\* exists, and the version is returned
AppSubmit ==
  /\ pcApp = "submit"
  /\ pcApp' = "done"
  /\ submitted' = submitted + 1
  /\ \E sg_ok \in BOOLEAN :
       IF ~sg_ok
         THEN /\ app_result' = "raised"
              /\ progress' = Append(progress, 50)
              /\ UNCHANGED deleted
       ELSE IF ~store_on_disk /\ movie_exists
         THEN /\ app_result' = "version"
              /\ progress' = progress \o <<50, 90>>
              /\ deleted' = TRUE
       ELSE /\ app_result' = "version"
            /\ progress' = Append(progress, 50)
            /\ UNCHANGED deleted
  /\ UNCHANGED <<heap, fields_of, called, upload_to_shotgun, store_on_disk, movie_exists>>
  /\ UNCHANGED rendererVars
  /\ UNCHANGED hostVars

EntryPoints == {"render_and_submit_version", "render_and_submit_path", "render",
                "submit_version"}

\* a call of one of the entry points of the app with the caller's mapping
AppInit ==
  /\ called \in EntryPoints
  /\ pcApp = called
  /\ heap = <<CallerFields>>
  /\ fields_of = [f \in Frames |-> IF f \in {"caller", called} THEN 1 ELSE 0]
  /\ upload_to_shotgun \in BOOLEAN
  /\ store_on_disk \in BOOLEAN
  /\ movie_exists \in BOOLEAN
  /\ progress = <<>>
  /\ submitted = 0
  /\ deleted = FALSE
  /\ app_result = "none"
  /\ pcMain = "idle"
  /\ outcome = NoOutcome
  /\ resumes = 0
  /\ finishedEarly = FALSE
  /\ pcThread = "idle"
  /\ output_lines = <<>>
  /\ subproc_error_msg = <<>>
  /\ processed_paths = <<>>
  /\ threadError = "none"
  /\ quitPosted = FALSE
  /\ spawned = 0
  /\ exe_ok = TRUE
  /\ threads_started = 0
  /\ pcWorker = "none"
  /\ argv = {}
  /\ input_data = {}
  /\ ret_status = "none"
  /\ warnings = 0
  /\ returncode = -1
  /\ pipe = <<>>
  /\ written = <<>>
  /\ stdout = <<>>
  /\ optarg = NoEnv
  /\ before_help = {}
  /\ worker_env = NoEnv
  /\ platform = "linux2"
  /\ os_environ = [n \in {"PATH"} |-> "/usr/bin"]
  /\ process_env = os_environ
  /\ DefaultJob
  /\ nuke_render_info = NoRenderInfo
  /\ nuke_importable \in BOOLEAN
  /\ batch_mode = TRUE
  /\ cmd_prefix = <<>>

AppNext ==
  \/ AppVersionEntry
  \/ AppPathEntry
  \/ AppRender
  \/ AppDispatch
  \/ AppRenderReturn
  \/ AppSubmitEntry
  \/ AppSubmit

SpecApp == AppInit /\ [][AppNext \/ CodecNext]_vars

\* ================================================================ claims
\* the captured standard-error text the frames are decoded from
Captured == Join(output_lines, NL)

MainDone == pcMain \in {"returned", "raised"}

Range(s) == {s[i] : i \in 1..Len(s)}

\* the text between the first two occurrences of sentinel, found by position
SecondIndex(text, sentinel) == IndexFrom(text, sentinel, Find(text, sentinel) + 1)

HasBlock(text, sentinel) == Find(text, sentinel) # 0 /\ SecondIndex(text, sentinel) # 0

FirstPayload(text, sentinel) ==
  SubSeq(text, Find(text, sentinel) + 1, SecondIndex(text, sentinel) - 1)

\* b occurs in s as a run of consecutive tokens
Infix(b, s) == \E i \in 1..(Len(s) + 1) : \E j \in 0..Len(s) : SubSeq(s, i, j) = b

\* the diagnostic from its first trace marker on, all of it without a marker
FromFirstMarker(d) == IF Find(d, TB) = 0 THEN d ELSE SubSeq(d, Find(d, TB), Len(d))

\* artifact paths: non-empty, a drive letter brings a ':' with it
PathSet == {<<"a">>, <<"a", COLON, "a">>}

PathLists == {<<p>> : p \in PathSet} \cup {<<p, q>> : p \in PathSet, q \in PathSet}

\* C1: end to end, all 13 arguments supplied and the render backend reporting OK,
\* the dispatcher returns a non-empty list of paths holding the destination movie
\* path and does not raise.
C1_EndToEndSuccess ==
  (MainDone /\ data_keys \subseteq argv /\ ret_status = "OK")
    => /\ outcome.kind = "returned"
       /\ outcome.paths # <<>>
       /\ movie_output_path \in Range(outcome.paths)

\* C2: exit code 0 and the captured text holding, as its first frame, the block of
\* the paths of P joined by ':': render_in_nuke returns exactly P.
C2_PathsRoundTrip ==
  \A P \in PathLists :
    (/\ MainDone
     /\ returncode = 0
     /\ HasBlock(Captured, PP)
     /\ FirstPayload(Captured, PP) = Join(P, COLON))
      => (outcome.kind = "returned" /\ outcome.paths = P)

MessageFrom(payload) ==
  /\ outcome.kind = "raised"
  /\ Len(outcome.msg) >= 1
  /\ outcome.msg[1] = ErrPrefix
  /\ Infix(Tail(outcome.msg), payload)
  /\ Find(payload, TB) = 0 => Tail(outcome.msg) = payload

\* C4 as stated: non-zero exit and a [RETURN_STATUS_DATA] block in the captured
\* text: render_in_nuke raises a message derived from the payload of the block,
\* for every payload.
C4_StatusPayloadSurfaced ==
  (MainDone /\ returncode # 0 /\ HasBlock(Captured, RSD))
    => MessageFrom(FirstPayload(Captured, RSD))

\* C4 amended: the same for every non-empty payload; with an empty payload
\* render_in_nuke raises the fixed 'No output paths' error.
C4_NonEmptyPayloadSurfaced ==
  (MainDone /\ returncode # 0 /\ HasBlock(Captured, RSD))
    => IF FirstPayload(Captured, RSD) # <<>>
         THEN MessageFrom(FirstPayload(Captured, RSD)) /\ Len(outcome.msg) > 1
         ELSE outcome.kind = "raised" /\ outcome.msg = NoPathsMsg

C4_Witness ==
  /\ MainDone
  /\ returncode = 3
  /\ HasBlock(Captured, RSD)
  /\ Find(Captured, RSD) > 1
  /\ FirstPayload(Captured, RSD) = <<"a", TB>>
  /\ outcome.msg = <<ErrPrefix, TB>>

\* C5: non-zero exit and no [RETURN_STATUS_DATA] sentinel in the captured text:
\* render_in_nuke raises a message that carries the whole captured text.
C5_WholeTextFallback ==
  (MainDone /\ returncode # 0 /\ RSD \notin Range(Captured))
    => (outcome.kind = "raised" /\ Infix(Captured, outcome.msg))

\* C6: after a non-zero exit, whatever the captured text, render_in_nuke raises
\* and returns no list of paths.
C6_NonZeroExitFails ==
  (MainDone /\ returncode # 0) => (outcome.kind = "raised" /\ outcome.paths = <<>>)

C6_Witness ==
  /\ MainDone
  /\ returncode = 2
  /\ RSD \notin Range(Captured)
  /\ PP \in Range(Captured)
  /\ outcome.kind = "raised"

\* C7: the message surfaced for a failed worker is its diagnostic from the first
\* trace marker to the end of the diagnostic, the whole diagnostic without a marker.
C7_TraceFromFirstMarker ==
  (MainDone /\ subproc_error_msg # <<>>)
    => (outcome.kind = "raised"
        /\ outcome.msg = <<ErrPrefix>> \o FromFirstMarker(subproc_error_msg))

\* C8: when the frames are decoded nothing the worker wrote is left unread, and a
\* status frame the worker wrote is in the captured text.
C8_AllOutputCaptured ==
  (pcThread = "decode")
    => (pipe = <<>> /\ (RSD \in Range(written) => RSD \in Range(Captured)))

MainBlocked == pcMain \in {"gather", "start", "started", "waiting"}

\* render_in_nuke raised before it started a thread
ConfigError == pcMain = "raised" /\ threads_started = 0

WorkerRunning == pcWorker \notin {"none", "exited"}

\* blocked: never resumed, nothing delivered; resumed: once, after the thread
\* finished; delivered: the outcome of the thread's final fields
C9_ResumeInv ==
  /\ MainBlocked => (resumes = 0 /\ outcome = NoOutcome)
  /\ (~MainBlocked /\ ~ConfigError)
       => (resumes = 1 /\ pcThread = "finished" /\ ~WorkerRunning)
  /\ (MainDone /\ ~ConfigError)
       => outcome = RenderOutcome(subproc_error_msg, processed_paths)

\* C9: the primary thread leaves its event-loop wait exactly once, only after the
\* worker thread has finished and the process is gone; the thread writes its two
\* fields only before the finished signal and the primary thread acts on them only
\* after it, so the outcome it delivers is the thread's final one.
C9_SingleHandoff ==
  /\ []C9_ResumeInv
  /\ [][pcThread = "finished" => UNCHANGED <<subproc_error_msg, processed_paths>>]_vars
  /\ [][~MainBlocked => resumes' = resumes]_vars

C9_Witness ==
  /\ MainDone
  /\ finishedEarly
  /\ resumes = 1
  /\ pcWorker = "exited"
  /\ subproc_error_msg # <<>>

\* C10: the primary thread stays blocked while the worker process runs, and once
\* the process has exited, or cannot be spawned, render_in_nuke eventually returns
\* or raises.
C10_DispatchTerminates ==
  /\ [](WorkerRunning => MainBlocked)
  /\ (pcWorker = "exited" \/ ~exe_ok) ~> MainDone

C10_Witness ==
  /\ MainDone
  /\ ~exe_ok
  /\ threadError = "OSError"
  /\ outcome.msg = NoPathsMsg

\* ------------------------------------------------ worker entry point claims
WorkerExited == pcWorker = "exited"

\* -h or --help is on the command line
HelpFlag == "help" \in argv

\* the required arguments that are not on the command line
Missing == data_keys \ argv

AllSupplied == data_keys \subseteq argv

\* every option is one getopt accepts and every value on the command line decodes
WellFormed ==
  /\ GetoptAccepts(argv)
  /\ \A d_key \in argv \cap data_keys : Decodes(d_key, optarg[d_key])

NoFrames == RSD \notin Range(written) /\ PP \notin Range(written)

BackendNotCalled == ret_status = "none" /\ pcWorker \notin {"render", "status", "paths"}

\* C11: all required arguments present and the render backend returning OK, the
\* worker writes to standard error a status frame carrying OK, then a paths
\* frame listing the produced path, and ends with exit code 0.
C11_WorkerSuccess ==
  (WorkerExited /\ AllSupplied /\ ret_status = "OK")
    => /\ returncode = 0
       /\ HasBlock(written, RSD)
       /\ FirstPayload(written, RSD) = StatusRepr("OK")
       /\ HasBlock(written, PP)
       /\ Find(written, PP) > SecondIndex(written, RSD)
       /\ FirstPayload(written, PP) = movie_output_path

\* C12: all required arguments present and the render backend failing, the
\* worker writes to standard error a status frame carrying ERROR and the
\* stack trace, and ends with exit code 3.
C12_WorkerFailure ==
  (WorkerExited /\ AllSupplied /\ ret_status = "ERROR")
    => /\ returncode = 3
       /\ HasBlock(written, RSD)
       /\ FirstPayload(written, RSD) = StatusRepr("ERROR")
       /\ TB \in Range(FirstPayload(written, RSD))

\* C13: a command line of named options that lacks any non-empty subset of the
\* 13 required ones, without a help flag: the worker never calls the render
\* backend, writes neither frame, and ends with exit code 2.
C13_MissingArgument ==
  (WellFormed /\ ~HelpFlag /\ Missing # {})
    => /\ BackendNotCalled
       /\ NoFrames
       /\ WorkerExited => returncode = 2

C13_Witness ==
  /\ WorkerExited
  /\ WellFormed
  /\ Missing = {"render_info"}
  /\ returncode = 2
  /\ written = MissingArgText

\* C14: every termination of the worker has an exit code in {0, 2, 3}: 0 only
\* after a successful render or a help request, 2 only with a required argument
\* missing, 3 only after a failed render.
C14_ExitCodes ==
  WorkerExited
    => /\ returncode \in {0, 2, 3}
       /\ returncode = 0 => (ret_status = "OK" \/ HelpFlag)
       /\ returncode = 2 => Missing # {}
       /\ returncode = 3 => ret_status = "ERROR"

\* C15 as stated: with a help flag on the command line, whatever else is on
\* it, the worker prints the usage block and ends with exit code 0, without
\* calling the render backend or writing a frame.
C15_HelpWhateverElse ==
  HelpFlag
    => /\ BackendNotCalled
       /\ NoFrames
       /\ WorkerExited => (returncode = 0 /\ stdout = UsageText)

\* C15: with a help flag on a command line whose options getopt all accepts
\* and whose values before the help flag all decode, the worker prints the usage
\* block and ends with exit code 0, without calling the render backend or
\* writing a frame.
C15_HelpUsage ==
  (/\ HelpFlag
   /\ GetoptAccepts(argv)
   /\ \A d_key \in before_help : Decodes(d_key, optarg[d_key]))
    => /\ BackendNotCalled
       /\ NoFrames
       /\ WorkerExited => (returncode = 0 /\ stdout = UsageText /\ written = <<>>)

C15_Witness ==
  /\ WorkerExited
  /\ HelpFlag
  /\ argv \cap data_keys = {"width", "height"}
  /\ returncode = 0
  /\ stdout = UsageText

\* ------------------------------------------------- dispatcher to worker
\* the worker process of the dispatch has been created
WorkerSpawned == pcWorker # "none"

\* the option loop of the worker has run to its end
WorkerParsed == pcWorker \notin {"none", "parse"}

\* the value the dispatcher holds for a named option
DispatchedValue(opt) ==
  IF opt = "shotgun_context" THEN app_context ELSE render_info(RenderInfoKey(opt))

\* C16: the command line the dispatcher builds names exactly the worker's
\* data_keys, so the worker never ends with exit code 2 or an option error;
\* every pickled value decodes in the worker to the value the dispatcher
\* encoded, and the context token is on the command line as serialized and
\* goes through the context deserializer.
C16_ArgumentRoundTrip ==
  /\ WorkerSpawned
       => /\ argv = data_keys
          /\ DOMAIN optarg = data_keys
          /\ optarg["shotgun_context"] = context_serialize(app_context)
          /\ \A d_key \in data_keys \ {"shotgun_context"} :
               pickle_loads(optarg[d_key]) = DispatchedValue(d_key)
          /\ Context_deserialize(optarg["shotgun_context"]) = DispatchedValue("shotgun_context")
  /\ WorkerParsed
       => /\ input_data = data_keys
          /\ returncode # 2
          /\ Infix(GetoptErrorText, written) = FALSE
          /\ Infix(MissingArgText, written) = FALSE
          /\ Infix(DecodeErrorTraceback, written) = FALSE

C16_Witness ==
  /\ pcWorker = "render"
  /\ spawned = 1
  /\ input_data = data_keys
  /\ DecodeArg("width", optarg["width"]) = render_info("width")

\* C17: the worker is spawned with every variable of the dispatcher's
\* environment unchanged plus TANK_CONTEXT set to the serialized context, the
\* value of --shotgun_context; the environment of the dispatcher's own process
\* is left as it was, without TANK_CONTEXT added.
C17_WorkerEnvironment ==
  /\ WorkerSpawned
       => /\ \A n \in DOMAIN os_environ \ {"TANK_CONTEXT"} :
               n \in DOMAIN worker_env /\ worker_env[n] = os_environ[n]
          /\ "TANK_CONTEXT" \in DOMAIN worker_env
          /\ worker_env["TANK_CONTEXT"] = optarg["shotgun_context"]
          /\ worker_env["TANK_CONTEXT"] = context_serialize(app_context)
  /\ process_env = os_environ

\* C18: on a platform that is not win32, linux2 or darwin, render_in_nuke
\* raises before a thread is started or a process spawned; and with an
\* executable that cannot be run, a completed call has raised.
C18_ConfigErrorsFailFast ==
  /\ platform \notin RecognizedPlatforms
       => /\ threads_started = 0
          /\ spawned = 0
          /\ pcThread = "idle"
          /\ ~WorkerSpawned
          /\ pcMain \in {"gather", "raised"}
          /\ pcMain = "raised" => outcome.kind = "raised"
  /\ (~exe_ok /\ MainDone) => (pcMain = "raised" /\ outcome.kind = "raised")

C18_Witness ==
  /\ platform \notin RecognizedPlatforms
  /\ pcMain = "raised"
  /\ outcome.msg = KeyErrorMsg(platform)

\* C19: one call of render_in_nuke starts at most one thread and spawns at
\* most one process, whatever the exit code and the captured output.
C19_NoRetries == threads_started <= 1 /\ spawned <= 1

C19_Witness ==
  /\ pcMain = "raised"
  /\ returncode = 1
  /\ threads_started = 1
  /\ spawned = 1

\* C20: a ShooterThread never has both subproc_error_msg and processed_paths
\* non-empty, and a completed render_in_nuke has either raised, returning
\* nothing, or returned a non-empty list of paths without an error.
C20_OutcomeExclusive ==
  /\ ~(subproc_error_msg # <<>> /\ processed_paths # <<>>)
  /\ MainDone
       => \/ outcome.kind = "raised" /\ outcome.paths = <<>> /\ outcome.msg # <<>>
          \/ /\ outcome.kind = "returned"
             /\ outcome.paths # <<>>
             /\ outcome.msg = <<>>
             /\ subproc_error_msg = <<>>

C20_Witness ==
  /\ pcMain = "returned"
  /\ returncode = 0
  /\ subproc_error_msg = <<>>
  /\ processed_paths = <<"a", COLON, "a">>
  /\ outcome.paths = <<<<"a">>, <<"a">>>>

\* ------------------------------------------------------- job description
\* gather_nuke_render_info has returned
Gathered == pcMain # "gather" /\ platform \in RecognizedPlatforms

\* every path of the job description
JobPaths ==
  {nuke_render_info.src_frames_path, nuke_render_info.movie_output_path,
   nuke_render_info.burnin_nk, nuke_render_info.slate_font, nuke_render_info.slate_logo}
    \cup {nuke_render_info.extra_write_node_mapping[n] :
            n \in DOMAIN nuke_render_info.extra_write_node_mapping}

\* C21: on every host and for every input, no path gather_nuke_render_info puts
\* into the job description (frames, movie, burn-in script, logo, font, extra
\* write-node outputs) contains a backslash.
C21_JobPathsNormalized ==
  Gathered => \A path \in JobPaths : BS \notin Range(path)

\* ------------------------------------------------------- order of capture
\* a text without its newlines and blanks
NonBlank(text) == SelectSeq(text, LAMBDA tok : tok \notin Whitespace)

\* what the drain loop has taken from the pipe so far
Consumed == SubSeq(written, 1, Len(written) - Len(pipe))

BothCaptured == RSD \in Range(Captured) /\ PP \in Range(Captured)

\* C22: the captured lines are what the worker wrote, in the order it wrote
\* them, nothing repeated or moved; with both sentinels captured they stand in
\* the captured text in the order the worker wrote them.
C22_CaptureOrder ==
  /\ NonBlank(Captured) = NonBlank(Consumed)
  /\ BothCaptured
       => (Find(Captured, RSD) < Find(Captured, PP)) = (Find(written, RSD) < Find(written, PP))

C22_Witness ==
  /\ pcThread = "decode"
  /\ written = <<RSD, RSD, NL, PP, PP>>
  /\ Captured = written

\* ------------------------------------------------------- order of frames
Count(text, tok) == Len(SelectSeq(text, LAMBDA t : t = tok))

BackendReturned == ret_status \in {"OK", "ERROR"}

\* no frame before the backend returned, at most one frame of each kind, the
\* status frame first, nothing of a frame on standard output
FramesInOrder ==
  /\ (RSD \in Range(written) \/ PP \in Range(written)) => BackendReturned
  /\ Count(written, RSD) \in {0, 2}
  /\ Count(written, PP) \in {0, 2}
  /\ PP \in Range(written)
       => (HasBlock(written, RSD) /\ SecondIndex(written, RSD) < Find(written, PP))
  /\ RSD \notin Range(stdout)
  /\ PP \notin Range(stdout)

\* C23: in every run of the worker no frame is written before the render
\* backend has returned, at most one status frame and one paths frame are
\* written, the status frame before the paths frame, on standard error and
\* never on standard output, and nothing is written after the process has ended.
C23_FrameDiscipline == []FramesInOrder /\ [][WorkerExited => written' = written]_vars

C23_Witness ==
  /\ WorkerExited
  /\ BackendReturned
  /\ Count(written, RSD) = 2
  /\ Find(written, RSD) = 1
  /\ stdout = <<NL>>

\* ------------------------------------------------------------ mode flag
\* C24: the command line starts with the executable path, one mode flag and
\* the script path; the flag is '-t' exactly when the nuke module could not be
\* imported by the dispatcher and '-it' otherwise.
C24_ModeFlag ==
  spawned > 0
    => /\ Len(cmd_prefix) = 3
       /\ cmd_prefix[1] = render_info("nuke_exe_path")
       /\ cmd_prefix[3] = render_info("render_script_path")
       /\ cmd_prefix[2] = (IF nuke_importable THEN "-it" ELSE "-t")

C24_Witness ==
  /\ pcWorker = "parse"
  /\ nuke_importable
  /\ cmd_prefix[2] = "-it"

\* ------------------------------------------------------------ app claims
\* the call went through render_and_submit_path
ViaPath == called \in {"render_and_submit_version", "render_and_submit_path"}

AppDone == pcApp = "done"

\* the movie output path is among the paths render_in_nuke returned
MovieReturned == outcome.kind = "returned" /\ movie_output_path \in Range(outcome.paths)

\* render_in_nuke was called and has raised or returned
DispatchEnded == outcome.kind \in {"raised", "returned"}

\* C25: render_and_submit_path calls the submitter only after a render that
\* returned the movie output path; when the dispatch fails or the path is not
\* among the returned ones, the call raises, the submitter is never called and
\* no movie is deleted.
C25_SubmitOnlyAfterRender ==
  /\ (ViaPath /\ submitted > 0) => MovieReturned
  /\ (ViaPath /\ AppDone /\ DispatchEnded /\ ~MovieReturned)
       => (app_result = "raised" /\ submitted = 0 /\ ~deleted)

C25_Witness ==
  /\ called = "render_and_submit_path"
  /\ AppDone
  /\ outcome.kind = "returned"
  /\ outcome.paths = <<<<"a">>>>
  /\ app_result = "raised"

\* C26: with upload_to_shotgun and store_on_disk both false,
\* render_and_submit_path and submit_version return None: no render is
\* dispatched, the submitter is not called, no progress is reported and no file
\* is deleted.
C26_NotConfigured ==
  (/\ called \in {"render_and_submit_path", "submit_version"}
   /\ ~upload_to_shotgun
   /\ ~store_on_disk)
    => /\ pcMain = "idle"
       /\ threads_started = 0
       /\ spawned = 0
       /\ submitted = 0
       /\ progress = <<>>
       /\ ~deleted
       /\ app_result = (IF AppDone THEN "None" ELSE "none")

C26_Witness ==
  /\ called = "render_and_submit_path"
  /\ ~upload_to_shotgun
  /\ ~store_on_disk
  /\ movie_exists
  /\ AppDone
  /\ app_result = "None"

\* C27: whatever entry point of the app is called and however the call ends,
\* the mapping the caller passed keeps its keys and values; the entries are
\* added to copies.
C27_CallerFieldsKept == heap[fields_of["caller"]] = CallerFields

C27_Witness ==
  /\ called = "render_and_submit_version"
  /\ AppDone
  /\ app_result = "version"
  /\ heap[fields_of["render_and_submit_version"]]["SEQ"] = "FORMAT: %d"
  /\ heap[fields_of["render_in_nuke"]]["path"] = "path_to_frames"
  /\ heap[fields_of["render_and_submit_path"]]["width"] = "movie_width"

====
